---- MODULE Spec2Model ----
(***************************************************************************)
(* Model of the state-space reachability engine of reachability.hpp        *)
(* (state_space_t::check, solver and costSolver).                          *)
(*                                                                         *)
(* The engine is a template over the caller's state type, transition       *)
(* generator, invariant, goal predicate and cost.  The specification Spec  *)
(* instantiates it with small explicit transition systems: the states are  *)
(* numbers, the transition generator of a state yields one transition per  *)
(* outgoing edge, and the invariant and the goal predicate are sets of     *)
(* states.  Every such system within the bounds below is an initial state  *)
(* of Spec, together with each of the three exploration strategies         *)
(* (breadth-first, depth-first, cost-ordered with the depth cost of        *)
(* family.cpp).  SpecRoutes explores the systems of one more edge with a   *)
(* single goal state, FairSpec is Spec with the loop running on.  SpecAll  *)
(* adds the two puzzles of the repository to the systems of Spec: the      *)
(* cabbage, goat and wolf of crossing.cpp and the family of family.cpp.    *)
(* SpecFamilyMoves applies the transitions of family.cpp in any sequence,  *)
(* without the engine.                                                     *)
(***************************************************************************)
EXTENDS Integers, Sequences, FiniteSets, TLC

(***************************************************************************)
(* Bounds of the explicit transition systems.                              *)
(***************************************************************************)
\* largest number of transitions (edges) of a transition system
MaxEdges == 3
\* largest number of states the goal predicate accepts
MaxGoals == 2
\* largest number of states the invariant predicate rejects
MaxRejected == 1

\* the loop iterations a run is followed for.  A run over a system of e edges
\* pops at most e + 1 nodes, so the guard on MaxPops in the two iteration
\* actions never holds a run of the engine back; it only stops the runs of a
\* search that would not terminate
MaxPops == MaxEdges + 3

\* the loop iterations a run over the family of family.cpp is followed for
MaxFamilyPops == 7

\* nullptr, the parent of the root trace_state
nullptr == 0

VARIABLES
    conf,               \* the state_space_t object: what the constructor stored
    pc,                 \* "constructed", "solver", "costSolver" or "done"
    heap,               \* the trace_state objects made so far; a shared_ptr is an index
    waiting,            \* solver: list of shared_ptr; costSolver: the priority queue's pairs
    passed,             \* the list of states already expanded
    traces,             \* solver's traces / costSolver's solution list
    containedSolution,  \* the container the path is copied into
    result,             \* the container of paths that check returns
    currentState,       \* the state of the node popped last
    currentCost,        \* costSolver: the cost popped last
    traceState,         \* the shared_ptr the loop body holds
    popped,             \* observer: the nodes popped so far, in order
    generated,          \* observer: the states passed to _transitionFunction, in order
    pushlog             \* observer: per node, the node being expanded and the cost at its push

vars == <<conf, pc, heap, waiting, passed, traces, containedSolution, result,
          currentState, currentCost, traceState, popped, generated, pushlog>>

(***************************************************************************)
(* The caller's model: an explicit transition system.                      *)
(***************************************************************************)
\* the states a set of edges mentions, with the initial state
Known(g) == {0} \cup {e[2] : e \in g}

\* the systems of one more edge: the edge leaves a known state and leads to a
\* known state or to the next unused one, so every edge's source is
\* reachable and the states are numbered in the order they are introduced
Grow(g) ==
    LET top == CHOOSE m \in Known(g) : \A x \in Known(g) : x <= m
    IN  {g \cup {<<u, v>>} : u \in Known(g), v \in 0 .. (top + 1)}

RECURSIVE Systems(_)
\* the edge sets of at most k edges
Systems(k) ==
    IF k = 0 THEN {{}}
    ELSE LET prev == Systems(k - 1) IN prev \cup UNION {Grow(g) : g \in prev}

\* the subsets of S of at most k elements
SubsetsUpTo(S, k) == {T \in SUBSET S : Cardinality(T) <= k}

\* the three ways check explores: (order, _useCost)
Strategies ==
    { [order |-> "breadth_first", useCost |-> FALSE],
      [order |-> "depth_first",   useCost |-> FALSE],
      [order |-> "breadth_first", useCost |-> TRUE] }

RECURSIVE Ascending(_)
\* the elements of a set of numbers, smallest first
Ascending(S) ==
    IF S = {} THEN <<>>
    ELSE LET m == CHOOSE x \in S : \A y \in S : x <= y
         IN  <<m>> \o Ascending(S \ {m})

\* the transition generator of system g as a table: for each state the
\* targets of its transitions, in the order the generator yields them
Table(g) ==
    [s \in Known(g) |-> Ascending({e[2] : e \in {d \in g : d[1] = s}})]

\* what a constructor stores for system g, rejected states r, goal states gs
\* and strategy st
Conf(g, r, gs, st) ==
    [model |-> "explicit", initialState |-> 0,
     transitions |-> Table(g), rejected |-> r, goals |-> gs,
     order |-> st.order, useCost |-> st.useCost, cost |-> "depth"]

(***************************************************************************)
(* The caller's model: the cabbage, goat and wolf of crossing.cpp.  A state *)
(* is an actors_t, the positions of the three actors; a transition is the  *)
(* closure [i] that assigns one actor a position.                          *)
(***************************************************************************)
\* enum actor, as indices into actors_t
cabbage == 1
goat == 2
wolf == 3

\* actors_t{}: value-initialised, every actor at the first enumerator
crossing_initial == <<"shore1", "shore1", "shore1">>

\* crossing_moves with the travel case left after its first push_back: a
\* travelling actor can only turn back
crossing_moves_back_only(actors, i) ==
    CASE actors[i] = "shore1" -> <<[kind |-> "move", i |-> i, pos |-> "travel"]>>
      [] actors[i] = "travel" -> <<[kind |-> "move", i |-> i, pos |-> "shore1"]>>
      [] actors[i] = "shore2" -> <<[kind |-> "move", i |-> i, pos |-> "travel"]>>

\* what the switch in transitions pushes for actor i
crossing_moves(actors, i) ==
    CASE actors[i] = "shore1" -> <<[kind |-> "move", i |-> i, pos |-> "travel"]>>
      [] actors[i] = "travel" -> <<[kind |-> "move", i |-> i, pos |-> "shore1"],
                                   [kind |-> "move", i |-> i, pos |-> "shore2"]>>
      [] actors[i] = "shore2" -> <<[kind |-> "move", i |-> i, pos |-> "travel"]>>

\* transitions of crossing.cpp: the moves of the actors, in actor order
crossing_transitions(actors) ==
    crossing_moves(actors, cabbage) \o crossing_moves(actors, goat)
        \o crossing_moves(actors, wolf)

\* std::count(begin, end, value) over the positions
count(positions, value) ==
    Cardinality({i \in 1 .. Len(positions) : positions[i] = value})

\* is_valid with the two tests for actors left alone taken out
is_valid_passengers_only(actors) == ~ (count(actors, "travel") > 1)

\* is_valid of crossing.cpp
is_valid(actors) ==
    IF count(actors, "travel") > 1 THEN FALSE
    ELSE IF actors[goat] = actors[wolf] /\ actors[cabbage] = "travel" THEN FALSE
    ELSE IF actors[goat] = actors[cabbage] /\ actors[wolf] = "travel" THEN FALSE
    ELSE TRUE

\* the goal predicate of crossing.cpp's solve: all actors on shore2
crossing_goal(actors) == count(actors, "shore2") = Len(actors)

(***************************************************************************)
(* The caller's model: the family of family.cpp.  A state is a state_t, a  *)
(* boat and the positions of eight persons; a transition is one of the     *)
(* closures that transitions pushes.                                       *)
(***************************************************************************)
\* the enumerators of person_t, as indices into state_t::persons
mother == 1
father == 2
daughter1 == 3
daughter2 == 4
son1 == 5
son2 == 6
policeman == 7
prisoner == 8

\* boat_t::capacity{2}
capacity == 2

\* the range of uint16_t, the type of boat_t::passengers
uint16 == 65536

\* state_t{}: the boat and every person on shore1, nobody on board
family_initial ==
    [boat |-> [pos |-> "shore1", capacity |-> capacity, passengers |-> 0],
     persons |-> [i \in mother .. prisoner |-> [pos |-> "shore1"]]]

\* boat_moves with the test for passengers left out: the boat starts
\* travelling from a shore whoever is on board
boat_moves_any_load(s) ==
    CASE s.boat.pos \in {"shore1", "shore2"} -> <<[kind |-> "start"]>>
      [] s.boat.pos = "travel" ->
            <<[kind |-> "arrive", shore |-> "shore1"],
              [kind |-> "arrive", shore |-> "shore2"]>>

\* what the first switch of transitions pushes: the moves of the boat
boat_moves(s) ==
    CASE s.boat.pos \in {"shore1", "shore2"} ->
            IF s.boat.passengers > 0 THEN <<[kind |-> "start"]>> ELSE <<>>
      [] s.boat.pos = "travel" ->
            <<[kind |-> "arrive", shore |-> "shore1"],
              [kind |-> "arrive", shore |-> "shore2"]>>

\* what the loop of transitions pushes for person i
person_moves(s, i) ==
    CASE s.persons[i].pos = "shore1" ->
            IF s.boat.pos = "shore1" THEN <<[kind |-> "board", i |-> i]>> ELSE <<>>
      [] s.persons[i].pos = "shore2" ->
            IF s.boat.pos = "shore2" THEN <<[kind |-> "board", i |-> i]>> ELSE <<>>
      [] s.persons[i].pos = "onboard" ->
            IF s.boat.pos = "shore1"
                THEN <<[kind |-> "leave", i |-> i, shore |-> "shore1"]>>
            ELSE IF s.boat.pos = "shore2"
                THEN <<[kind |-> "leave", i |-> i, shore |-> "shore2"]>>
            ELSE <<>>

RECURSIVE persons_moves(_, _)
\* the moves of persons i .. prisoner, in the order of the loop
persons_moves(s, i) ==
    IF i > prisoner THEN <<>>
    ELSE person_moves(s, i) \o persons_moves(s, i + 1)

\* transitions of family.cpp
family_transitions(s) == boat_moves(s) \o persons_moves(s, mother)

\* the effect of the closure t of family.cpp on state s
family_apply(t, s) ==
    CASE t.kind = "start" -> [s EXCEPT !.boat.pos = "travel"]
      [] t.kind = "arrive" ->
            [s EXCEPT !.boat.pos = t.shore,
                      !.boat.passengers = 0,
                      !.persons = [i \in DOMAIN s.persons |->
                                     IF s.persons[i].pos = "onboard"
                                         THEN [pos |-> t.shore]
                                         ELSE s.persons[i]]]
      [] t.kind = "board" ->
            [s EXCEPT !.persons[t.i].pos = "onboard",
                      !.boat.passengers = (s.boat.passengers + 1) % uint16]
      [] t.kind = "leave" ->
            [s EXCEPT !.persons[t.i].pos = t.shore,
                      !.boat.passengers = (s.boat.passengers - 1) % uint16]

\* the tests of river_crossing_valid that follow the one for boat overload:
\* who may travel with whom, and who may stay with whom
river_crossing_rules(s) ==
    LET on(i) == s.persons[i].pos = "onboard"
        at(i) == s.persons[i].pos
        alone(a, b, c, d) ==
            s.boat.passengers = 1 \/ on(a) \/ on(b) \/ on(c) \/ on(d)
        child_travels ==
            IF on(daughter1) THEN alone(daughter2, son1, son2, prisoner)
            ELSE IF on(daughter2) THEN alone(daughter1, son1, son2, prisoner)
            ELSE IF on(son1) THEN alone(daughter1, daughter2, son2, prisoner)
            ELSE IF on(son2) THEN alone(daughter1, daughter2, son1, prisoner)
            ELSE FALSE
        prisoner_with_family ==
            /\ at(prisoner) # at(policeman)
            /\ \E i \in {daughter1, daughter2, son1, son2, mother, father} :
                  at(i) = at(prisoner)
        prisoner_on_boat == on(prisoner) /\ s.boat.passengers < 2
    IN  IF s.boat.pos = "travel"
              /\ (child_travels \/ prisoner_with_family \/ prisoner_on_boat)
            THEN FALSE
        ELSE IF at(daughter1) = at(father) /\ at(daughter1) # at(mother) THEN FALSE
        ELSE IF at(daughter2) = at(father) /\ at(daughter2) # at(mother) THEN FALSE
        ELSE IF at(son1) = at(mother) /\ at(son1) # at(father) THEN FALSE
        ELSE IF at(son2) = at(mother) /\ at(son2) # at(father) THEN FALSE
        ELSE TRUE

\* river_crossing_valid without its first test, the one for boat overload
river_crossing_valid_any_load(s) == river_crossing_rules(s)

\* river_crossing_valid of family.cpp
river_crossing_valid(s) ==
    IF s.boat.passengers > s.boat.capacity THEN FALSE
    ELSE river_crossing_rules(s)

\* goal of family.cpp: every person on shore2
family_goal(s) == \A i \in DOMAIN s.persons : s.persons[i].pos = "shore2"

\* the three cost functions main hands to solve: the depth, and the noise of
\* the sons left on shore1 with son1 (son2) counted twice
depth_cost(state, prev_cost) ==
    [depth |-> prev_cost.depth + 1, noise |-> prev_cost.noise]

noise_cost(state, prev_cost, of_son1, of_son2) ==
    [depth |-> prev_cost.depth,
     noise |-> prev_cost.noise
                 + (IF state.persons[son1].pos = "shore1" THEN of_son1 ELSE 0)
                 + (IF state.persons[son2].pos = "shore1" THEN of_son2 ELSE 0)]

(***************************************************************************)
(* The members of state_space_t and the predicate handed to check, for the *)
(* model the object was constructed with.                                  *)
(***************************************************************************)
\* what solve of crossing.cpp constructs, for strategy st
CrossingConf(st) ==
    [model |-> "crossing", initialState |-> crossing_initial,
     transitions |-> <<>>, rejected |-> {}, goals |-> {},
     order |-> st.order, useCost |-> st.useCost, cost |-> "depth"]

\* the cost functions of family.cpp's main
CostFunctions == {"depth", "noise_son1", "noise_son2"}

\* what solve of family.cpp constructs, for cost function c
FamilyConf(c) ==
    [model |-> "family", initialState |-> family_initial,
     transitions |-> <<>>, rejected |-> {}, goals |-> {},
     order |-> "breadth_first", useCost |-> TRUE, cost |-> c]

\* _initialState
initialState == conf.initialState

\* cost_t{}: the initial cost of the cost-aware constructor's caller
initialCost == [depth |-> 0, noise |-> 0]

\* _transitionFunction: the transitions of state s.  In an explicit system
\* there is one per outgoing edge, the closure that moves the state it is
\* applied to to the edge's target
transitionFunction(s) ==
    CASE conf.model = "explicit" ->
            [i \in 1 .. Len(conf.transitions[s]) |->
                [kind |-> "goto", to |-> conf.transitions[s][i]]]
      [] conf.model = "crossing" -> crossing_transitions(s)
      [] conf.model = "family" -> family_transitions(s)

\* transition(successor): the state a transition leaves in the copy it is applied to
Apply(transition, successor) ==
    CASE transition.kind = "goto" -> transition.to
      [] transition.kind = "move" ->
            [successor EXCEPT ![transition.i] = transition.pos]
      [] OTHER -> family_apply(transition, successor)

\* _invariantFunction
invariantFunction(s) ==
    CASE conf.model = "explicit" -> s \notin conf.rejected
      [] conf.model = "crossing" -> is_valid(s)
      [] conf.model = "family" -> river_crossing_valid(s)

\* isGoalState, the predicate handed to check
isGoalState(s) ==
    CASE conf.model = "explicit" -> s \in conf.goals
      [] conf.model = "crossing" -> crossing_goal(s)
      [] conf.model = "family" -> family_goal(s)

\* _costFunction
costFunction(s, cost) ==
    CASE conf.cost = "depth" -> depth_cost(s, cost)
      [] conf.cost = "noise_son1" -> noise_cost(s, cost, 2, 1)
      [] conf.cost = "noise_son2" -> noise_cost(s, cost, 1, 2)

\* CostLess written the natural way round: the smaller depth, then the smaller
\* noise, is less
CostLessNatural(a, b) ==
    IF a.depth < b.depth THEN TRUE
    ELSE IF b.depth < a.depth THEN FALSE
    ELSE a.noise < b.noise

\* cost_t::operator<, inverted so that the max-heap pops the smallest cost
CostLess(a, b) ==
    IF a.depth > b.depth THEN TRUE
    ELSE IF b.depth > a.depth THEN FALSE
    ELSE a.noise > b.noise

(***************************************************************************)
(* The trace graph.                                                        *)
(***************************************************************************)
\* make_shared<trace_state>(trace_state{parent, self})
TraceState(parent, self) == [parent |-> parent, self |-> self]

RECURSIVE WalkToRoot(_, _)
\* where the loop `while (traceState->parent != nullptr)` leaves traceState
WalkToRoot(h, n) ==
    IF h[n].parent = nullptr THEN n ELSE WalkToRoot(h, h[n].parent)

RECURSIVE WalkedBackwards(_, _)
\* WalkedStates with push_back in place of push_front: goal first, root last
WalkedBackwards(h, n) ==
    IF h[n].parent = nullptr THEN <<h[n].self>>
    ELSE <<h[n].self>> \o WalkedBackwards(h, h[n].parent)

RECURSIVE WalkedStates(_, _)
\* the states that loop and the push_front after it put in front of the
\* trace list: the node's ancestor chain, root first
WalkedStates(h, n) ==
    IF h[n].parent = nullptr THEN <<h[n].self>>
    ELSE Append(WalkedStates(h, h[n].parent), h[n].self)

\* Found with the search of passed left out: no state counts as passed
FoundNever(list, s) == FALSE

\* find(passed.begin(), passed.end(), currentState) != passed.end()
Found(list, s) == \E i \in 1 .. Len(list) : list[i] = s

\* the result of applying each transition of ts to its own copy of s
Applied(s, ts) == [i \in 1 .. Len(ts) |-> Apply(ts[i], s)]

\* Validated with the invariant test negated: the rejected successors are
\* pushed
ValidatedInverted(s, ts) ==
    SelectSeq(Applied(s, ts), LAMBDA successor : ~ invariantFunction(successor))

\* Validated with the invariant test left out: every successor is pushed
Unvalidated(s, ts) == Applied(s, ts)

\* the successors of s that pass the invariant, in transition order
Validated(s, ts) ==
    SelectSeq(Applied(s, ts), LAMBDA successor : invariantFunction(successor))

(***************************************************************************)
(* One iteration of the search loop.  Both solvers share its shape: pop a  *)
(* node, test the goal, expand the node's state unless it was passed.      *)
(***************************************************************************)
\* the shared_ptr in traceState after the goal block: the walk that collects
\* the path advances traceState itself, and nothing resets it
AfterGoal(h, node) ==
    IF isGoalState(h[node].self) THEN WalkToRoot(h, node) ELSE node

\* the trace list after the goal block: the walked states are pushed in front
\* of what the list already holds; the list is never cleared
TracesAfter(h, node, list) ==
    IF isGoalState(h[node].self) THEN WalkedStates(h, node) \o list ELSE list

\* containedSolution after the goal block: every element of the trace list is
\* pushed behind what the container already holds; it is never cleared
ContainedAfter(h, node, list, contained) ==
    IF isGoalState(h[node].self)
        THEN contained \o TracesAfter(h, node, list)
        ELSE contained

\* ResultAfter with the goal block moved inside the visited check: a path is
\* appended only for a state that is not in passed
ResultUnlessPassed(h, node, list, contained, res) ==
    IF isGoalState(h[node].self) /\ ~ Found(passed, h[node].self)
        THEN Append(res, ContainedAfter(h, node, list, contained))
        ELSE res

\* ResultAfter with the path put in front of result instead of behind it
ResultPrepended(h, node, list, contained, res) ==
    IF isGoalState(h[node].self)
        THEN <<ContainedAfter(h, node, list, contained)>> \o res
        ELSE res

\* result after the goal block
ResultAfter(h, node, list, contained, res) ==
    IF isGoalState(h[node].self)
        THEN Append(res, ContainedAfter(h, node, list, contained))
        ELSE res

\* Pushed with the visited check left out: every popped state is expanded
PushedAlways(list, s) == Validated(s, transitionFunction(s))

\* Pushed with the expansion skipped when the popped state satisfies the goal
PushedUnlessGoal(list, s) ==
    IF Found(list, s) \/ isGoalState(s) THEN <<>>
    ELSE Validated(s, transitionFunction(s))

\* Pushed with the loop over the transitions left after its first round: only
\* the first transition's successor is considered
PushedFirstOnly(list, s) ==
    LET ts == transitionFunction(s)
    IN  IF Found(list, s) THEN <<>>
        ELSE Validated(s, [i \in 1 .. (IF Len(ts) = 0 THEN 0 ELSE 1) |-> ts[i]])

\* the validated successors pushed for the popped state: none when the state
\* is found in passed
Pushed(list, s) ==
    IF Found(list, s) THEN <<>> ELSE Validated(s, transitionFunction(s))

\* PassedAfter with passed.push_back left out
PassedUnrecorded(list, s) == list

\* passed after the visited check
PassedAfter(list, s) == IF Found(list, s) THEN list ELSE Append(list, s)

\* generated after the visited check: _transitionFunction runs right after
\* passed.push_back
GeneratedAfter(list, gen, s) == IF Found(list, s) THEN gen ELSE Append(gen, s)

\* NewNodes with every successor linked to the root node instead
NewNodesOfRoot(parent, succs) ==
    [i \in 1 .. Len(succs) |-> TraceState(1, succs[i])]

\* the trace_state objects made for the successors, each with the parent the
\* loop body holds in traceState at that point
NewNodes(parent, succs) ==
    [i \in 1 .. Len(succs) |-> TraceState(parent, succs[i])]

\* PopIndex with pop_front for either order
PopIndexFront(order, w) == 1

\* PopIndex with pop_back for either order
PopIndexBack(order, w) == Len(w)

\* solver's pop: front of the list for breadth_first, back for depth_first
PopIndex(order, w) == IF order = "breadth_first" THEN 1 ELSE Len(w)

\* the list without its i-th element
Without(w, i) == SubSeq(w, 1, i - 1) \o SubSeq(w, i + 1, Len(w))

\* NewCosts with _initialCost handed to the cost function in place of the
\* cost of the popped node
NewCostsFromInitial(succs, cost) ==
    [k \in 1 .. Len(succs) |-> costFunction(succs[k], initialCost)]

\* newCost for each pushed successor: _costFunction(successor, currentCost),
\* currentCost being the cost popped with the node
NewCosts(succs, cost) ==
    [k \in 1 .. Len(succs) |-> costFunction(succs[k], cost)]

\* costSolver's candidates for waiting.top(): the pairs no other pair's cost
\* exceeds under operator<; pairs of equivalent cost are ordered by the
\* addresses of their trace_state objects, which the allocator decides
Tops(w) == {p \in w : \A q \in w : ~ CostLess(p[1], q[1])}

\* the loop iterations a run over the constructed model is followed for.  A
\* run over crossing.cpp expands each of the 3 * 3 * 3 states at most once and
\* a state with at most one actor travelling has at most 4 transitions
PopCap ==
    CASE conf.model = "explicit" -> MaxPops
      [] conf.model = "crossing" -> 1 + 4 * 3 * 3 * 3
      [] conf.model = "family" -> MaxFamilyPops

\* state_space_t::check: dispatches on _useCost; each solver seeds its waiting
\* structure with the root node and enters its loop
Check ==
    /\ pc = "constructed"
    /\ heap' = <<TraceState(nullptr, initialState)>>
    /\ IF conf.useCost
          THEN /\ pc' = "costSolver"
               /\ waiting' = {<<initialCost, 1>>}
               /\ pushlog' = <<[by |-> nullptr, cost |-> initialCost]>>
          ELSE /\ pc' = "solver"
               /\ waiting' = <<1>>
               /\ pushlog' = <<[by |-> nullptr, cost |-> nullptr]>>
    /\ currentCost' = initialCost
    /\ UNCHANGED <<conf, passed, traces, containedSolution, result,
                   currentState, traceState, popped, generated>>

\* one iteration of solver's while loop
SolverIteration ==
    /\ pc = "solver"
    /\ waiting # <<>>
    /\ Len(popped) < PopCap
    /\ LET i == PopIndex(conf.order, waiting)
           node == waiting[i]
           s == heap[node].self
           succs == Pushed(passed, s)
           parent == AfterGoal(heap, node)
       IN  /\ currentState' = s
           /\ traceState' = parent
           /\ popped' = Append(popped, node)
           /\ traces' = TracesAfter(heap, node, traces)
           /\ containedSolution' = ContainedAfter(heap, node, traces, containedSolution)
           /\ result' = ResultAfter(heap, node, traces, containedSolution, result)
           /\ passed' = PassedAfter(passed, s)
           /\ generated' = GeneratedAfter(passed, generated, s)
           /\ heap' = heap \o NewNodes(parent, succs)
           /\ waiting' = Without(waiting, i) \o
                           [k \in 1 .. Len(succs) |-> Len(heap) + k]
           /\ pushlog' = pushlog \o
                           [k \in 1 .. Len(succs) |-> [by |-> node, cost |-> nullptr]]
    /\ UNCHANGED <<conf, pc, currentCost>>

\* solver leaves the loop with waiting empty and returns result
SolverReturn ==
    /\ pc = "solver"
    /\ waiting = <<>>
    /\ pc' = "done"
    /\ UNCHANGED <<conf, heap, waiting, passed, traces, containedSolution, result,
                   currentState, currentCost, traceState, popped, generated, pushlog>>

\* one iteration of costSolver's while loop
CostSolverIteration ==
    /\ pc = "costSolver"
    /\ waiting # {}
    /\ Len(popped) < PopCap
    /\ \E top \in Tops(waiting) :
         LET cost == top[1]
             node == top[2]
             s == heap[node].self
             succs == Pushed(passed, s)
             parent == AfterGoal(heap, node)
             newCosts == NewCosts(succs, cost)
         IN  /\ currentState' = s
             /\ currentCost' = cost
             /\ traceState' = parent
             /\ popped' = Append(popped, node)
             /\ traces' = TracesAfter(heap, node, traces)
             /\ containedSolution' = ContainedAfter(heap, node, traces, containedSolution)
             /\ result' = ResultAfter(heap, node, traces, containedSolution, result)
             /\ passed' = PassedAfter(passed, s)
             /\ generated' = GeneratedAfter(passed, generated, s)
             /\ heap' = heap \o NewNodes(parent, succs)
             /\ waiting' = (waiting \ {top}) \cup
                             {<<newCosts[k], Len(heap) + k>> : k \in 1 .. Len(succs)}
             /\ pushlog' = pushlog \o
                             [k \in 1 .. Len(succs) |-> [by |-> node, cost |-> newCosts[k]]]
    /\ UNCHANGED <<conf, pc>>

\* costSolver leaves the loop with waiting empty and returns result
CostSolverReturn ==
    /\ pc = "costSolver"
    /\ waiting = {}
    /\ pc' = "done"
    /\ UNCHANGED <<conf, heap, waiting, passed, traces, containedSolution, result,
                   currentState, currentCost, traceState, popped, generated, pushlog>>

\* the locals of the solvers before check is called
Fresh ==
    /\ pc = "constructed"
    /\ heap = <<>>
    /\ waiting = <<>>
    /\ passed = <<>>
    /\ traces = <<>>
    /\ containedSolution = <<>>
    /\ result = <<>>
    /\ currentState = initialState
    /\ currentCost = initialCost
    /\ traceState = nullptr
    /\ popped = <<>>
    /\ generated = <<>>
    /\ pushlog = <<>>

\* a constructed state_space_t on which check has not been called, for every
\* system within the bounds and every strategy
Init ==
    /\ \E g \in Systems(MaxEdges) :
         \E r \in SubsetsUpTo(Known(g), MaxRejected),
            gs \in SubsetsUpTo(Known(g), MaxGoals),
            st \in Strategies :
                conf = Conf(g, r, gs, st)
    /\ Fresh

\* the systems of one more edge with an invariant that accepts every state
\* and a goal predicate that accepts one state: the systems in which several
\* routes lead through a shared state to the goal
InitRoutes ==
    /\ \E g \in Systems(MaxEdges + 1) :
         \E goal \in Known(g), st \in Strategies :
                conf = Conf(g, {}, {goal}, st)
    /\ Fresh

\* crossing.cpp's state_space_t before check is called: it is constructed
\* without a cost; check is called with the default order or depth_first
InitCrossing ==
    /\ \E st \in {x \in Strategies : ~ x.useCost} : conf = CrossingConf(st)
    /\ Fresh

\* family.cpp's state_space_t before check is called, for every cost function
InitFamily ==
    /\ \E c \in CostFunctions : conf = FamilyConf(c)
    /\ Fresh

\* one transition of the family applied to the state in currentState, whether
\* or not river_crossing_valid accepts the result: the transition is one of
\* those that transitions yields for the state and is of the given kind
FamilyMove(kind) ==
    /\ pc = "constructed"
    /\ \E i \in 1 .. Len(family_transitions(currentState)) :
          /\ family_transitions(currentState)[i].kind = kind
          /\ currentState' =
                family_apply(family_transitions(currentState)[i], currentState)
    /\ UNCHANGED <<conf, pc, heap, waiting, passed, traces, containedSolution,
                   result, currentCost, traceState, popped, generated, pushlog>>

\* a person boards the boat
Board == FamilyMove("board")

\* a person leaves the boat
Leave == FamilyMove("leave")

\* the boat starts travelling
StartTravelling == FamilyMove("start")

\* the boat arrives at a shore
Arrive == FamilyMove("arrive")

\* the transitions of family.cpp, applied in any sequence
FamilyMoves == Board \/ Leave \/ StartTravelling \/ Arrive

\* every state_space_t of this development: the explicit systems and the two
\* puzzles
InitAll == Init \/ InitCrossing \/ InitFamily

Next ==
    \/ Check
    \/ SolverIteration
    \/ SolverReturn
    \/ CostSolverIteration
    \/ CostSolverReturn

Spec == Init /\ [][Next]_vars

SpecRoutes == InitRoutes /\ [][Next]_vars

SpecAll == InitAll /\ [][Next]_vars

\* the states of the family that sequences of its transitions generate from
\* state_t{}
SpecFamilyMoves == InitFamily /\ [][FamilyMoves]_vars

\* the loop runs on while it can: check is one synchronous call
FairSpec == Spec /\ WF_vars(Next)

(***************************************************************************)
(* Notions the properties are stated in.                                   *)
(***************************************************************************)
\* the elements of a sequence
Range(seq) == {seq[i] : i \in 1 .. Len(seq)}

\* the popped nodes whose state satisfied the goal predicate, in pop order
GoalPops == SelectSeq(popped, LAMBDA n : isGoalState(heap[n].self))

\* the states one transition of s leads to
Successors(s) ==
    LET ts == transitionFunction(s) IN {Apply(ts[j], s) : j \in 1 .. Len(ts)}

\* the successors of s that the invariant accepts
ValidSuccessors(s) == {x \in Successors(s) : invariantFunction(x)}

RECURSIVE Closure(_)
\* the states reachable from the states of S through accepted successors
Closure(S) ==
    LET T == S \cup UNION {ValidSuccessors(s) : s \in S}
    IN  IF T = S THEN S ELSE Closure(T)

\* the states reachable from the initial state through accepted successors,
\* the initial state itself counted as reachable
Reachable == Closure({initialState})

RECURSIVE RoutesFrom(_)
\* the loop-free sequences of accepted successors that extend p
RoutesFrom(p) ==
    {p} \cup UNION {RoutesFrom(Append(p, x)) :
                        x \in ValidSuccessors(p[Len(p)]) \ Range(p)}

\* the loop-free routes from the initial state to a goal state
GoalRoutes ==
    {p \in RoutesFrom(<<initialState>>) : isGoalState(p[Len(p)])}

\* the fewest transitions that lead from the initial state to state g
Distance(g) ==
    LET lens == {Len(p) - 1 : p \in {q \in RoutesFrom(<<initialState>>) : q[Len(q)] = g}}
    IN  CHOOSE d \in lens : \A e \in lens : d <= e

\* a sequence without repeated elements
NoDuplicates(seq) == \A i, j \in 1 .. Len(seq) : seq[i] = seq[j] => i = j

\* some reachable state can be reached again from itself
HasCycle == \E s \in Reachable : s \in Closure(ValidSuccessors(s))

(***************************************************************************)
(* C1..C3: the returned paths.                                             *)
(***************************************************************************)
\* C1: every returned path starts with the initial state and ends with a
\* state that satisfies the goal predicate
C1_PathsLeadFromInitialToGoal ==
    \A k \in 1 .. Len(result) :
        /\ Len(result[k]) > 0
        /\ result[k][1] = initialState
        /\ isGoalState(result[k][Len(result[k])])

\* a finished run that popped several goal nodes, one of them below the root
C1_SeveralGoalsPopped ==
    /\ pc = "done"
    /\ Len(result) >= 2
    /\ \E k \in 1 .. Len(GoalPops) : heap[GoalPops[k]].parent # nullptr

\* C2: the k-th returned path is the ancestor chain of the k-th popped goal
\* node, root first, and nothing else
C2_PathIsAncestorChain ==
    /\ Len(result) = Len(GoalPops)
    /\ \A k \in 1 .. Len(result) : result[k] = WalkedStates(heap, GoalPops[k])

\* C3: every returned path starts with the initial state and each of its
\* states is followed by the result of one of that state's transitions
C3_EveryStepIsATransition ==
    \A k \in 1 .. Len(result) :
        /\ Len(result[k]) > 0
        /\ result[k][1] = initialState
        /\ \A i \in 1 .. (Len(result[k]) - 1) :
              result[k][i + 1] \in Successors(result[k][i])

(***************************************************************************)
(* C4, C5: which paths are returned.                                       *)
(***************************************************************************)
\* C4 as claimed: when check returns, every loop-free route from the initial
\* state to a goal state is one of the returned paths.  Stated for the runs
\* that return at most one path, in which no earlier path is carried into a
\* later one (C2): what refutes it there is the visited check alone
C4_EveryRouteReturned ==
    (pc = "done" /\ Len(result) <= 1) =>
        GoalRoutes \subseteq Range(result)

\* C4 as amended: when some route leads to a goal state, check returns a
\* non-empty result whose first path is one of the loop-free routes
C4_FirstPathIsARoute ==
    (pc = "done" /\ GoalRoutes # {}) =>
        /\ Len(result) >= 1
        /\ result[1] \in GoalRoutes

\* a finished run over a system with two routes to the goal through a shared
\* state, of which one was returned
C4_SharedStateOnTwoRoutes ==
    /\ pc = "done"
    /\ Cardinality(GoalRoutes) >= 2
    /\ Len(result) = 1
    /\ Len(result[1]) >= 3
    /\ \E p \in GoalRoutes \ {result[1]} :
          /\ Len(p) >= 3
          /\ p[Len(p) - 1] = result[1][Len(result[1]) - 1]

\* C5: in a cost-free breadth-first check, the first path returned for a
\* popped node with goal state G has as few transitions as any route to G
C5_FirstPathToGoalIsShortest ==
    (~ conf.useCost /\ conf.order = "breadth_first") =>
        \A k \in 1 .. Len(GoalPops) :
            (\A j \in 1 .. (k - 1) : heap[GoalPops[j]].self # heap[GoalPops[k]].self)
                => /\ k <= Len(result)
                   /\ Len(result[k]) - 1 = Distance(heap[GoalPops[k]].self)

(***************************************************************************)
(* C6, C7: deduplication and termination.                                  *)
(***************************************************************************)
\* C6: the transition generator is invoked at most once per state value and
\* passed never holds the same state twice
C6_EachStateExpandedOnce == NoDuplicates(generated) /\ NoDuplicates(passed)

\* a finished run in which some state was carried by several popped nodes
C6_StatePoppedTwice ==
    /\ pc = "done"
    /\ \E i, j \in 1 .. Len(popped) :
          i # j /\ heap[popped[i]].self = heap[popped[j]].self
    /\ Len(generated) >= 2

\* C7: check eventually finds the frontier empty and returns
C7_CheckReturns == <>(pc = "done")

\* a finished run over a system with a cycle
C7_ReturnedDespiteCycle == pc = "done" /\ HasCycle /\ Len(popped) >= 3

(***************************************************************************)
(* C8..C10: the invariant and the empty result.                            *)
(***************************************************************************)
\* C8: no state the invariant rejects is in a returned path or is passed to
\* the transition generator, the initial state included
C8_RejectedStatesExcluded ==
    /\ \A i \in 1 .. Len(generated) : invariantFunction(generated[i])
    /\ \A k \in 1 .. Len(result) :
          \A i \in 1 .. Len(result[k]) : invariantFunction(result[k][i])

\* C9: when the invariant rejects the initial state, check returns no path
C9_RejectedInitialGivesEmptyResult ==
    (pc = "done" /\ ~ invariantFunction(initialState)) => result = <<>>

\* C10: when no reachable state satisfies the goal predicate, the result is
\* empty
C10_NoReachableGoalGivesEmptyResult ==
    (\A s \in Reachable : ~ isGoalState(s)) => result = <<>>

\* a finished run that expanded several states and returned nothing, over a
\* system whose only goal states lie behind rejected states
C10_GoalBehindRejectedState ==
    /\ pc = "done"
    /\ result = <<>>
    /\ Len(generated) >= 2
    /\ conf.goals # {}
    /\ \E s \in conf.rejected : Successors(s) \cap conf.goals # {}

(***************************************************************************)
(* C11, C12: completeness and the order of the result.                     *)
(***************************************************************************)
\* some popped node carries state s
PoppedState(s) == \E i \in 1 .. Len(popped) : heap[popped[i]].self = s

\* C11: check returns, and by then every goal state that is reachable from
\* the initial state through accepted successors has been carried by a popped
\* node and the result is not empty
C11_ReachableGoalsArePopped ==
    <>(/\ pc = "done"
       /\ \A g \in Reachable :
             isGoalState(g) => PoppedState(g) /\ result # <<>>)

\* a finished run in which a state was reached over several nodes and two
\* reachable goal states, one of them not the initial state, were popped
C11_GoalsPoppedDespiteDeduplication ==
    /\ pc = "done"
    /\ Cardinality({g \in Reachable : isGoalState(g)}) >= 2
    /\ Len(passed) < Len(popped)
    /\ Len(result) >= 2

\* C12: a step changes result only by appending one path, and it does so
\* exactly when it pops a node whose state satisfies the goal predicate; so
\* the i-th path is the one appended at the i-th such pop, and the paths
\* appended before stay as and where they are
C12_ResultGrowsByGoalPops ==
    [][IF popped' # popped /\ isGoalState(heap[popped'[Len(popped')]].self)
          THEN /\ Len(result') = Len(result) + 1
               /\ SubSeq(result', 1, Len(result)) = result
               /\ Len(result') = Len(GoalPops')
          ELSE result' = result]_vars

\* a finished run that appended several paths, the first for a node below the
\* root, and popped a node without a goal state last
C12_PathsAppendedInPopOrder ==
    /\ pc = "done"
    /\ Len(result) >= 2
    /\ heap[GoalPops[1]].parent # nullptr
    /\ ~ isGoalState(heap[popped[Len(popped)]].self)

(***************************************************************************)
(* C13: the pop of the cost-aware search.                                  *)
(***************************************************************************)
\* cost a is numerically smaller than cost b: the smaller depth, or the same
\* depth and the smaller noise
NumericallySmaller(a, b) ==
    a.depth < b.depth \/ (a.depth = b.depth /\ a.noise < b.noise)

\* C13: every pop of costSolver removes a node whose cost no node then in the
\* frontier undercuts numerically
C13_PopsNumericallySmallestCost ==
    [][(pc = "costSolver" /\ popped' # popped) =>
          /\ <<currentCost', popped'[Len(popped')]>> \in waiting
          /\ \A q \in waiting : ~ NumericallySmaller(q[1], currentCost')]_vars

\* a run with a noise cost in which the node popped last was waiting together
\* with a node of the same depth and more noise, which still waits
C13_PoppedBeforeNoisierNode ==
    /\ pc = "costSolver"
    /\ Len(popped) >= 3
    /\ \E q \in waiting :
          /\ pushlog[q[2]].by # popped[Len(popped)]
          /\ q[1].depth = currentCost.depth
          /\ q[1].noise > currentCost.noise
          /\ currentCost.noise > 0

(***************************************************************************)
(* C14, C15: the search after a goal pop, and the breadth-first order.     *)
(***************************************************************************)
\* the nodes in the frontier
Frontier ==
    IF pc = "constructed" THEN {}
    ELSE IF conf.useCost THEN {p[2] : p \in waiting}
    ELSE Range(waiting)

\* the nodes a step makes
NewlyMade == (Len(heap) + 1) .. Len(heap')

\* C14: a step that pops a node with a goal state stays in the loop; when the
\* state was not passed yet, the step records it in passed and pushes one node
\* for each transition of the state whose successor the invariant accepts;
\* and check returns only with an empty frontier
C14_GoalPopContinuesSearch ==
    [][/\ (popped' # popped /\ isGoalState(currentState')) =>
            /\ pc' = pc
            /\ ~ Found(passed, currentState') =>
                  /\ passed' = Append(passed, currentState')
                  /\ {heap'[n].self : n \in NewlyMade} = ValidSuccessors(currentState')
                  /\ Len(heap') - Len(heap) =
                        Cardinality({j \in 1 .. Len(transitionFunction(currentState')) :
                            invariantFunction(Apply(transitionFunction(currentState')[j],
                                                    currentState'))})
                  /\ NewlyMade \subseteq Frontier'
       /\ pc' = "done" => Frontier = {}]_vars

\* a finished run in which the expansion of a popped goal node pushed a node
\* whose later pop appended a further path
C14_PathAppendedAfterGoalPop ==
    /\ pc = "done"
    /\ \E i, j \in 1 .. Len(GoalPops) :
          /\ i < j
          /\ pushlog[GoalPops[j]].by = GoalPops[i]
          /\ heap[GoalPops[i]].parent # nullptr

RECURSIVE Depth(_)
\* the number of transitions that led from the initial state to node n: one
\* more than for the node whose expansion pushed n
Depth(n) == IF pushlog[n].by = nullptr THEN 0 ELSE 1 + Depth(pushlog[n].by)

\* C15: in a cost-free breadth-first check, of two returned paths the earlier
\* one has no more transitions than the later one, and its goal node lies no
\* deeper than the later one's
C15_BreadthFirstPathsByDepth ==
    (~ conf.useCost /\ conf.order = "breadth_first") =>
        /\ Len(result) = Len(GoalPops)
        /\ \A i, j \in 1 .. Len(result) :
              i < j => /\ Len(result[i]) <= Len(result[j])
                       /\ Depth(GoalPops[i]) <= Depth(GoalPops[j])

\* a finished breadth-first run that returned paths for goal nodes at several
\* depths below the root
C15_GoalsAtSeveralDepths ==
    /\ pc = "done"
    /\ ~ conf.useCost /\ conf.order = "breadth_first"
    /\ \E i, j \in 1 .. Len(GoalPops) :
          /\ i < j
          /\ 0 < Depth(GoalPops[i])
          /\ Depth(GoalPops[i]) < Depth(GoalPops[j])

(***************************************************************************)
(* C16, C17: the cabbage, the goat and the wolf.                           *)
(***************************************************************************)
\* the check of crossing.cpp's solve: breadth-first, without cost
CrossingSolve ==
    conf.model = "crossing" /\ ~ conf.useCost /\ conf.order = "breadth_first"

\* C16: the check of crossing.cpp's solve returns at least one path, and each
\* returned path leads from all actors on shore1 to all actors on shore2
C16_CrossingFindsPathToShore2 ==
    (CrossingSolve /\ pc = "done") =>
        /\ Len(result) >= 1
        /\ \A k \in 1 .. Len(result) :
              /\ result[k][1] = <<"shore1", "shore1", "shore1">>
              /\ result[k][Len(result[k])] = <<"shore2", "shore2", "shore2">>

\* the check of crossing.cpp's solve has returned with a path of several
\* crossings that first takes the goat over
C16_CrossingSolved ==
    /\ CrossingSolve /\ pc = "done"
    /\ Len(result) >= 1
    /\ Len(result[1]) >= 8
    /\ result[1][3] = <<"shore1", "shore2", "shore1">>

\* C17: no state of a path returned for the crossing model has the goat and
\* the wolf at one position while the cabbage travels, the goat and the
\* cabbage at one position while the wolf travels, or several actors travelling
C17_CrossingPathsAreSafe ==
    conf.model = "crossing" =>
        \A k \in 1 .. Len(result) : \A i \in 1 .. Len(result[k]) :
            LET actors == result[k][i]
            IN  /\ ~ (actors[goat] = actors[wolf] /\ actors[cabbage] = "travel")
                /\ ~ (actors[goat] = actors[cabbage] /\ actors[wolf] = "travel")
                /\ Cardinality({a \in {cabbage, goat, wolf} : actors[a] = "travel"}) <= 1

\* a depth-first check of the crossing model has returned a path on which the
\* cabbage travels and on which the wolf travels
C17_CabbageAndWolfTravelled ==
    /\ conf.model = "crossing" /\ conf.order = "depth_first" /\ pc = "done"
    /\ Len(result) >= 1
    /\ \E i, j \in 1 .. Len(result[1]) :
          result[1][i][cabbage] = "travel" /\ result[1][j][wolf] = "travel"

(***************************************************************************)
(* C18: the boat of the family.                                            *)
(***************************************************************************)
\* the successors with more than two passengers that the transitions of the
\* expanded states produced
Overloaded ==
    {x \in UNION {Successors(generated[i]) : i \in 1 .. Len(generated)} :
        x.boat.passengers > 2}

\* C18: in the family model no state of a pushed node, no expanded state and
\* no state of a returned path has more than two passengers; the successors
\* with more passengers are rejected by the invariant and no node carries them
C18_NeverMoreThanTwoPassengers ==
    conf.model = "family" =>
        /\ \A n \in 1 .. Len(heap) : heap[n].self.boat.passengers <= 2
        /\ \A i \in 1 .. Len(generated) : generated[i].boat.passengers <= 2
        /\ \A k \in 1 .. Len(result) : \A i \in 1 .. Len(result[k]) :
              result[k][i].boat.passengers <= 2
        /\ \A x \in Overloaded :
              /\ ~ invariantFunction(x)
              /\ \A n \in 1 .. Len(heap) : heap[n].self # x

\* a run over the family that expanded a state with two passengers on board
\* at shore1, where a third person boarded
C18_ThirdPassengerRejected ==
    /\ conf.model = "family"
    /\ Len(popped) >= 3
    /\ \E x \in Overloaded : x.boat.passengers = 3 /\ x.boat.pos = "shore1"

(***************************************************************************)
(* C19, C20: the nodes.                                                    *)
(***************************************************************************)
\* C19: every node that was pushed, the root node included, carries a state
\* that the invariant accepts
C19_PushedNodesPassedInvariant ==
    \A n \in 1 .. Len(heap) : invariantFunction(heap[n].self)

\* C20: every node pushed in the expansion of a popped node records that
\* popped node as its parent, also when the popped node's state satisfies the
\* goal
C20_ChildrenRecordPoppedNode ==
    \A n \in 1 .. Len(heap) : heap[n].parent = pushlog[n].by

(***************************************************************************)
(* C21, C22: revisits.                                                     *)
(***************************************************************************)
\* C21: a step that pops a node whose state is in passed already calls no
\* transition generator, makes no node and leaves passed as it is; it takes
\* the node out of the frontier and, only if the state satisfies the goal,
\* appends one path to result
C21_RevisitExpandsNothing ==
    [][(popped' # popped /\ currentState' \in Range(passed)) =>
          /\ generated' = generated
          /\ heap' = heap
          /\ passed' = passed
          /\ Frontier' = Frontier \ {popped'[Len(popped')]}
          /\ popped'[Len(popped')] \in Frontier
          /\ IF isGoalState(currentState')
                THEN /\ Len(result') = Len(result) + 1
                     /\ SubSeq(result', 1, Len(result)) = result
                ELSE result' = result]_vars

\* the node popped at position i carries a state that an earlier pop carried
Revisit(i) == \E j \in 1 .. (i - 1) : heap[popped[j]].self = heap[popped[i]].self

\* a finished run with a revisit of a state that has transitions and does not
\* satisfy the goal, and a revisit of a state that satisfies it
C21_RevisitsOfBothKinds ==
    /\ pc = "done"
    /\ \E i \in 1 .. Len(popped) :
          /\ Revisit(i)
          /\ ~ isGoalState(heap[popped[i]].self)
          /\ ValidSuccessors(heap[popped[i]].self) # {}
    /\ \E i \in 1 .. Len(popped) :
          Revisit(i) /\ isGoalState(heap[popped[i]].self)

\* the popped nodes that carried state s
PopsOf(s) == {i \in 1 .. Len(popped) : heap[popped[i]].self = s}

\* C22: result holds one path per pop of a node whose state satisfied the
\* goal, whether or not the state was passed before; when check returns that
\* is one path per node ever pushed with a goal state, while each state was
\* handed to the transition generator at most once
C22_OnePathPerGoalPop ==
    /\ Len(result) =
          Cardinality({i \in 1 .. Len(popped) : isGoalState(heap[popped[i]].self)})
    /\ pc = "done" =>
          Len(result) =
              Cardinality({n \in 1 .. Len(heap) : isGoalState(heap[n].self)})
    /\ \A i \in 1 .. Len(popped) :
          Cardinality({k \in 1 .. Len(generated) :
                          generated[k] = heap[popped[i]].self}) <= 1

\* a finished run in which a goal state other than the initial state was
\* pushed by the expansion of several nodes and so contributed several paths
C22_GoalReachedOverSeveralNodes ==
    /\ pc = "done"
    /\ \E n, m \in 1 .. Len(heap) :
          /\ n # m
          /\ heap[n].self = heap[m].self
          /\ isGoalState(heap[n].self)
          /\ pushlog[n].by # nullptr /\ pushlog[m].by # nullptr
          /\ pushlog[n].by # pushlog[m].by
          /\ Len(result) >= Cardinality(PopsOf(heap[n].self))
          /\ Cardinality(PopsOf(heap[n].self)) >= 2

(***************************************************************************)
(* C23: an invariant that rejects every successor of the initial state.    *)
(***************************************************************************)
\* C23 as claimed: when the invariant rejects every successor of the initial
\* state, check returns an empty result, whatever the initial state is.
\* Stated for the runs whose initial state the invariant accepts, so that what
\* refutes it is not the missing test of the initial state (C9)
C23_AllSuccessorsRejectedGivesEmptyResult ==
    (/\ pc = "done"
     /\ invariantFunction(initialState)
     /\ ValidSuccessors(initialState) = {}) => result = <<>>

\* C23 as amended: when the invariant rejects every successor of the initial
\* state, check returns an empty result if the initial state does not satisfy
\* the goal, and the one path that consists of the initial state if it does
\* and the invariant accepts it
C23_OnlyTheInitialStateCanBeReturned ==
    (pc = "done" /\ ValidSuccessors(initialState) = {}) =>
        IF ~ isGoalState(initialState) THEN result = <<>>
        ELSE invariantFunction(initialState) => result = <<<<initialState>>>>

\* a finished run over a system whose initial state satisfies the goal and
\* has transitions, all to states the invariant rejects
C23_GoalWithRejectedSuccessors ==
    /\ pc = "done"
    /\ Successors(initialState) # {}
    /\ ValidSuccessors(initialState) = {}
    /\ invariantFunction(initialState)
    /\ isGoalState(initialState)
    /\ result = <<<<initialState>>>>
    /\ \E s \in Successors(initialState) : isGoalState(s)

(***************************************************************************)
(* C24: the discipline of the cost-free frontier.  Nodes are numbered in   *)
(* the order they are pushed.                                              *)
(***************************************************************************)
\* in a depth-first run, a popped node b that waited when node x was popped
\* was popped after every node pushed by the expansion of x
SuccessorsPoppedFirst ==
    \A ib, ix \in 1 .. Len(popped) :
        (ix < ib /\ popped[ib] < popped[ix]) =>
            \A c \in 1 .. Len(heap) :
                pushlog[c].by = popped[ix] =>
                    \E ic \in (ix + 1) .. (ib - 1) : popped[ic] = c

\* C24: every pop of a cost-free depth-first check removes the waiting node
\* pushed last, so the nodes pushed by an expansion are popped before every
\* node that waited already; every pop of a cost-free breadth-first check
\* removes the waiting node pushed first
C24_PopsLastOrFirstPushed ==
    [][(pc = "solver" /\ popped' # popped) =>
          LET node == popped'[Len(popped')]
          IN  /\ node \in Frontier
              /\ IF conf.order = "depth_first"
                    THEN /\ \A n \in Frontier : n <= node
                         /\ SuccessorsPoppedFirst'
                    ELSE \A n \in Frontier : node <= n]_vars

\* a finished depth-first run in which a node waited while a node pushed
\* after it and that node's successor were popped
C24_SiblingWaitedForSubtree ==
    /\ pc = "done"
    /\ ~ conf.useCost /\ conf.order = "depth_first"
    /\ \E ib, ix, ic \in 1 .. Len(popped) :
          /\ ix < ic /\ ic < ib
          /\ popped[ib] < popped[ix]
          /\ pushlog[popped[ic]].by = popped[ix]

(***************************************************************************)
(* C25: the costs of the nodes.                                            *)
(***************************************************************************)
\* C25: in a cost-aware check the root is pushed with the initial cost and
\* every other node with the cost function's value for its state and the cost
\* of the node whose expansion pushed it; a waiting node waits with the cost
\* it was pushed with; and with the depth cost the depth of a node's cost is
\* the number of transitions that produced the node
C25_CostsFollowTheExpansions ==
    (conf.useCost /\ pc # "constructed") =>
        /\ \A n \in 1 .. Len(heap) :
              /\ pushlog[n].cost =
                    IF pushlog[n].by = nullptr THEN initialCost
                    ELSE costFunction(heap[n].self, pushlog[pushlog[n].by].cost)
              /\ conf.cost = "depth" => pushlog[n].cost.depth = Depth(n)
        /\ \A p \in waiting : p[1] = pushlog[p[2]].cost

\* a cost-aware run that expanded a goal node below the root: the node pushed
\* for its successor records the root as parent and has a cost of depth 2
C25_ChildOfGoalNodeHasItsDepth ==
    /\ conf.useCost /\ conf.cost = "depth"
    /\ \E n \in 1 .. Len(heap) :
          /\ pushlog[n].by # nullptr
          /\ pushlog[pushlog[n].by].by # nullptr
          /\ isGoalState(heap[pushlog[n].by].self)
          /\ heap[n].parent # pushlog[n].by
          /\ pushlog[n].cost.depth = 2

(***************************************************************************)
(* C26: the passenger counter of the family's boat.                        *)
(***************************************************************************)
\* the persons on board in state s
OnBoard(s) == {i \in DOMAIN s.persons : s.persons[i].pos = "onboard"}

\* C26: in every state that a sequence of the family's transitions generates
\* from the initial state, boat.passengers is the number of persons on board
\* (so the counter has not wrapped below 0), and a travelling boat has a
\* passenger
C26_PassengersCountPersonsOnBoard ==
    conf.model = "family" =>
        /\ currentState.boat.passengers = Cardinality(OnBoard(currentState))
        /\ currentState.boat.pos = "travel" => currentState.boat.passengers > 0

\* a state with more passengers than the boat's capacity, generated after the
\* boat has been to shore2: persons are on shore2 and three are on board
C26_OverloadedAfterCrossing ==
    /\ conf.model = "family" /\ pc = "constructed"
    /\ currentState.boat.passengers = 3
    /\ currentState.boat.pos = "shore1"
    /\ \E i \in DOMAIN currentState.persons : currentState.persons[i].pos = "shore2"

====
